---- MODULE Spec2Model ----
(***************************************************************************)
(* Model of src/Books/scrapper.py (KetabOnlineExtractor): the page         *)
(* fetcher with its semaphore and retry loop, the pagination resolver, the *)
(* content extractor and the assembler extract_book / extract_and_save.    *)
(*                                                                         *)
(* Text is a sequence of one-character strings.  An optional value is a    *)
(* sequence of length at most one: None is << >>, a value v is << v >>.    *)
(***************************************************************************)
EXTENDS Integers, Sequences, FiniteSets, TLC

VARIABLES
    concurrency,   \* self.concurrency
    max_retries,   \* self.max_retries
    semaphore,     \* free permits of self.semaphore
    total_pages,   \* self.total_pages
    calls,         \* the get_page calls: 0 is the pagination call, p >= 1 the task of page p
    doneQ,         \* asyncio.as_completed: finished tasks not yet handed to the loop body
    results,       \* the results list of extract_book
    completed,     \* pbar count
    order,         \* page numbers in the order the loop body received them
    phase,         \* position of extract_book / extract_and_save
    ret,           \* return value of extract_book
    saved,         \* content written by save_to_file
    doc,           \* first-page markup given to the pagination resolver
    resolved,      \* value returned by the pagination resolver
    page_html,     \* markup given to extract_content_from_html
    extracted      \* value returned by extract_content_from_html

vars == << concurrency, max_retries, semaphore, total_pages, calls, doneQ,
           results, completed, order, phase, ret, saved,
           doc, resolved, page_html, extracted >>

pipeVars == << concurrency, max_retries, semaphore, total_pages, calls, doneQ,
               results, completed, order, phase, ret, saved >>

(***************************************************************************)
(* Bounds of the model.                                                    *)
(***************************************************************************)
MaxPages == 3
MaxConcurrency == 2
MaxRetries == 2
MaxAttempts == 6
MaxDivs == 2
MaxToc == 2
MaxParas == 2

(***************************************************************************)
(* Program constants.                                                      *)
(***************************************************************************)
delay == 1
FallbackPages == 560
MinRefLen == 5

None == << >>
Some(v) == << v >>

(***************************************************************************)
(* Text helpers: str.strip, int(), and the regular expressions.            *)
(***************************************************************************)
Digits == {"0", "1", "2", "3", "4", "5", "6", "7", "8", "9"}
IsDigit(ch) == ch \in Digits
IsSpace(ch) == ch = " "

DigitVal(ch) ==
    CASE ch = "0" -> 0 [] ch = "1" -> 1 [] ch = "2" -> 2 [] ch = "3" -> 3
      [] ch = "4" -> 4 [] ch = "5" -> 5 [] ch = "6" -> 6 [] ch = "7" -> 7
      [] ch = "8" -> 8 [] ch = "9" -> 9

RECURSIVE ToInt(_)
ToInt(ds) ==
    IF ds = << >> THEN 0
    ELSE 10 * ToInt(SubSeq(ds, 1, Len(ds) - 1)) + DigitVal(ds[Len(ds)])

RECURSIVE Strip(_)
Strip(s) ==
    IF s = << >> THEN s
    ELSE IF IsSpace(s[1]) THEN Strip(Tail(s))
    ELSE IF IsSpace(s[Len(s)]) THEN Strip(SubSeq(s, 1, Len(s) - 1))
    ELSE s

Contains(s, ch) == \E i \in 1..Len(s) : s[i] = ch

\* index just after the longest run of digits that starts at i
RECURSIVE DigitRunEnd(_, _)
DigitRunEnd(s, i) ==
    IF i <= Len(s) /\ IsDigit(s[i]) THEN DigitRunEnd(s, i + 1) ELSE i

\* index just after the longest run of white space that starts at i
RECURSIVE SkipSpace(_, _)
SkipSpace(s, i) ==
    IF i <= Len(s) /\ IsSpace(s[i]) THEN SkipSpace(s, i + 1) ELSE i

\* (\d+)\s*/\s*(\d+) matched at position i: group 2, or None
PageRatioAt(s, i) ==
    IF ~(i <= Len(s) /\ IsDigit(s[i])) THEN None
    ELSE LET k == SkipSpace(s, DigitRunEnd(s, i))
         IN  IF ~(k <= Len(s) /\ s[k] = "/") THEN None
             ELSE LET m == SkipSpace(s, k + 1)
                  IN  IF ~(m <= Len(s) /\ IsDigit(s[m])) THEN None
                      ELSE Some(SubSeq(s, m, DigitRunEnd(s, m) - 1))

\* re.search(r'(\d+)\s*/\s*(\d+)', s): group 2 of the leftmost match, or None
RECURSIVE PageRatioFrom(_, _)
PageRatioFrom(s, i) ==
    IF i > Len(s) THEN None
    ELSE IF PageRatioAt(s, i) # None THEN PageRatioAt(s, i)
    ELSE PageRatioFrom(s, i + 1)

PageRatioSearch(s) == PageRatioFrom(s, 1)

\* re.search(r'page=(\d+)', href): group 1 of the leftmost match, or None.
\* The literal page= is one token of the text.
RECURSIVE PageParamFrom(_, _)
PageParamFrom(s, i) ==
    IF i >= Len(s) THEN None
    ELSE IF s[i] = "page=" /\ IsDigit(s[i + 1])
         THEN Some(SubSeq(s, i + 1, DigitRunEnd(s, i + 1) - 1))
    ELSE PageParamFrom(s, i + 1)

PageParamSearch(s) == PageParamFrom(s, 1)

\* re.match(r'^\d+$', text)
AllDigits(s) == s # << >> /\ \A i \in 1..Len(s) : IsDigit(s[i])

\* re.sub(r'\d+-', '', text): every run of digits followed by - is removed
RECURSIVE StripMarks(_)
StripMarks(s) ==
    IF s = << >> THEN s
    ELSE IF IsDigit(s[1])
         THEN LET e == DigitRunEnd(s, 1)
              IN  IF e <= Len(s) /\ s[e] = "-"
                  THEN StripMarks(SubSeq(s, e + 1, Len(s)))
                  ELSE SubSeq(s, 1, e - 1) \o StripMarks(SubSeq(s, e, Len(s)))
    ELSE << s[1] >> \o StripMarks(Tail(s))

\* sep.join(parts)
RECURSIVE Join(_, _)
Join(parts, sep) ==
    IF parts = << >> THEN << >>
    ELSE IF Len(parts) = 1 THEN parts[1]
    ELSE parts[1] \o sep \o Join(Tail(parts), sep)

ParaSep == << "\n\n" >>
PageSep == << "\n\n===========\n\n" >>

RECURSIVE Max(_)
Max(S) ==
    LET x == CHOOSE y \in S : TRUE
    IN  IF S = {x} THEN x
        ELSE LET m == Max(S \ {x}) IN IF x > m THEN x ELSE m

Range(f) == { f[i] : i \in DOMAIN f }

SeqsUpTo(S, n) == UNION { [1..k -> S] : k \in 0..n }

(***************************************************************************)
(* Markup.  A document is the list of its div elements in document order   *)
(* (text is the element's whole text, inNav says that it lies inside the   *)
(* .page-nav element), the href values of its .toc-item anchors, and its   *)
(* paragraphs.  empty marks the empty string.                              *)
(***************************************************************************)
Html(nav, divs, toc, paras) ==
    [nav |-> nav, divs |-> divs, toc |-> toc, paras |-> paras, empty |-> FALSE]

EmptyHtml ==
    [nav |-> FALSE, divs |-> << >>, toc |-> << >>, paras |-> << >>, empty |-> TRUE]

\* Python truth value of a markup string
Truthy(h) == ~h.empty

(***************************************************************************)
(* get_total_pages, lines 84-132: the strategy chain on the markup of the  *)
(* first page.                                                             *)
(***************************************************************************)
\* page_nav.select_one('div:contains("/")') and .text.strip(), lines 90-94
WidgetText(h) ==
    LET hits == { i \in 1..Len(h.divs) :
                      h.divs[i].inNav /\ Contains(h.divs[i].text, "/") }
    IN  IF h.nav /\ hits # {}
        THEN Some(Strip(h.divs[CHOOSE i \in hits : \A j \in hits : i <= j].text))
        ELSE None

\* the loop without its break: the last div with a match wins
ScanDivsLast(h) ==
    LET hits == { i \in 1..Len(h.divs) :
                      /\ Contains(h.divs[i].text, "/")
                      /\ PageRatioSearch(h.divs[i].text) # None }
    IN  IF hits # {}
        THEN Some(h.divs[CHOOSE i \in hits : \A j \in hits : i >= j].text)
        ELSE None

\* the loop over soup.select('div'), lines 98-103
ScanDivs(h) ==
    LET hits == { i \in 1..Len(h.divs) :
                      /\ Contains(h.divs[i].text, "/")
                      /\ PageRatioSearch(h.divs[i].text) # None }
    IN  IF hits # {}
        THEN Some(h.divs[CHOOSE i \in hits : \A j \in hits : i <= j].text)
        ELSE None

\* pagination_text after lines 89-103
PaginationText(h) ==
    LET w == WidgetText(h)
    IN  IF w = None \/ w[1] = << >> THEN ScanDivs(h) ELSE w

\* page numbers of the TOC links, lines 115-123
TocPageNumbers(h) ==
    { ToInt(PageParamSearch(h.toc[i])[1]) :
          i \in { j \in 1..Len(h.toc) : PageParamSearch(h.toc[j]) # None } }

\* lines 113-132
TocOrFallback(h) ==
    IF TocPageNumbers(h) # {} THEN Max(TocPageNumbers(h)) ELSE FallbackPages

\* lines 84-132
ResolvePages(h) ==
    LET pt == PaginationText(h)
    IN  IF pt # None /\ pt[1] # << >> /\ PageRatioSearch(pt[1]) # None
        THEN ToInt(PageRatioSearch(pt[1])[1])
        ELSE TocOrFallback(h)

(***************************************************************************)
(* Inputs of the pagination resolver.                                      *)
(***************************************************************************)
DivTexts ==
    { << "a" >>,
      << "a", "/", "b" >>,
      << " ", "1", "2", " ", "/", " ", "3", " " >>,
      << "2", "/", "0" >>,
      << "x", "/", "1", " ", "2", "/", "7" >> }

TocHrefs ==
    { << >>,
      << "?", "page=", "1", "1" >>,
      << "?", "page=", "0" >> }

Divs == [inNav : BOOLEAN, text : DivTexts]

Docs ==
    { Html(nav, divs, toc, << >>) :
          nav \in BOOLEAN, divs \in SeqsUpTo(Divs, MaxDivs), toc \in SeqsUpTo(TocHrefs, MaxToc) }

WellFormedDoc(h) == \A i \in 1..Len(h.divs) : h.divs[i].inNav => h.nav

(***************************************************************************)
(* extract_content_from_html, lines 144-193.  A paragraph has the kind of  *)
(* container it lies in (an article, one of .article-content and           *)
(* .page-content, or neither), whether it lies inside the first .generic   *)
(* element, whether it belongs to an element matched by the noise selector *)
(* of line 156, whether it has an a[href^="#"] descendant, and its         *)
(* get_text(strip=True).                                                   *)
(***************************************************************************)
\* el.decompose(), lines 156-157: removed from the tree for all later selects
Decomposed(para) == para.kind = "article" /\ para.noise

\* line 163
OnlyReference(para) == para.anchor /\ Len(para.text) < MinRefLen

\* lines 168, 179, 190
KeepText(text) == text # << >> /\ ~AllDigits(text)

RECURSIVE PrimaryContent(_)
PrimaryContent(paras) ==
    IF paras = << >> THEN << >>
    ELSE LET para == Head(paras)
             rest == PrimaryContent(Tail(paras))
         IN  IF para.kind # "article" \/ Decomposed(para) THEN rest
             ELSE IF OnlyReference(para) THEN rest
             ELSE IF KeepText(para.text) THEN << StripMarks(para.text) >> \o rest
             ELSE rest

RECURSIVE SecondaryContent(_)
SecondaryContent(paras) ==
    IF paras = << >> THEN << >>
    ELSE LET para == Head(paras)
             rest == SecondaryContent(Tail(paras))
         IN  IF para.kind \notin {"article", "secondary"} \/ Decomposed(para) THEN rest
             ELSE IF KeepText(para.text) THEN << para.text >> \o rest
             ELSE rest

RECURSIVE GenericContent(_)
GenericContent(paras) ==
    IF paras = << >> THEN << >>
    ELSE LET para == Head(paras)
             rest == GenericContent(Tail(paras))
         IN  IF ~para.inGeneric \/ Decomposed(para) THEN rest
             ELSE IF KeepText(para.text) THEN << para.text >> \o rest
             ELSE rest

\* the cascade of lines 153-191
Cascade(paras) ==
    IF PrimaryContent(paras) # << >> THEN PrimaryContent(paras)
    ELSE IF SecondaryContent(paras) # << >> THEN SecondaryContent(paras)
    ELSE GenericContent(paras)

extract_content_from_html(h) ==
    IF ~Truthy(h) THEN << >>
    ELSE IF Cascade(h.paras) # << >> THEN Join(Cascade(h.paras), ParaSep)
    ELSE << >>

(***************************************************************************)
(* Inputs of the content extractor.                                        *)
(***************************************************************************)
ParaTexts ==
    { << >>,
      << "4", "2" >>,
      << "(", "1", ")" >>,
      << "3", "7", "-", "a", "b", "c" >>,
      << "h", "e", "l", "l", "o", "!" >> }

Paras ==
    { para \in [text : ParaTexts, kind : {"article", "secondary", "other"},
                noise : BOOLEAN, anchor : BOOLEAN, inGeneric : BOOLEAN] :
          para.noise => para.kind = "article" }

Pages == { Html(FALSE, << >>, << >>, paras) : paras \in SeqsUpTo(Paras, MaxParas) }
         \cup {EmptyHtml}

(***************************************************************************)
(* The network.  A response is the status of session.get (0 when the       *)
(* request raised before any status arrived), the kind of exception        *)
(* raised by session.get or by response.text() ("client" stands for        *)
(* aiohttp.ClientError and asyncio.TimeoutError, "other" for any other     *)
(* exception), and the body that response.text() returns, None when the    *)
(* body is not read.                                                       *)
(***************************************************************************)
Statuses == {200, 204, 404}
DigitChar(n) == CHOOSE ch \in Digits : DigitVal(ch) = n

\* first-page markup whose pagination widget reads "1/n"
FirstPage(n) ==
    Html(TRUE, << [inNav |-> TRUE, text |-> << "1", "/", DigitChar(n) >>] >>, << >>, << >>)

\* markup of page p with one paragraph of text, and markup without paragraphs
TextPage(p) ==
    Html(FALSE, << >>, << >>,
         << [text |-> << "P", DigitChar(p) >>, kind |-> "article", noise |-> FALSE,
             anchor |-> FALSE, inGeneric |-> TRUE] >>)
BlankPage == Html(FALSE, << >>, << >>, << >>)

\* c = 0 is the request of get_total_pages, c >= 1 the request of page c
Bodies(c) ==
    IF c = 0 THEN { FirstPage(n) : n \in 0..MaxPages } \cup {EmptyHtml}
    ELSE {TextPage(c), BlankPage}

Responses(c) ==
    { [status |-> 200, err |-> "none", body |-> Some(b)] : b \in Bodies(c) }
    \cup { [status |-> st, err |-> "none", body |-> None] :
               st \in IF c = 0 THEN Statuses \ {200} ELSE {404} }
    \cup { [status |-> 0, err |-> e, body |-> None] :
               e \in IF c = 0 THEN {"client", "other"} ELSE {"client"} }
    \cup { [status |-> 200, err |-> e, body |-> None] :
               e \in IF c = 0 THEN {"client", "other"} ELSE {"other"} }

NoResponse == [status |-> 0, err |-> "none", body |-> None]

(***************************************************************************)
(* get_page, lines 54-71.                                                  *)
(***************************************************************************)
NoCall ==
    [pc |-> "none", attempt |-> 0, tries |-> 0, sleeps |-> << >>,
     resp |-> NoResponse, html |-> None]

\* acquire that never waits
CanAcquireUngated(sem) == TRUE

\* async with self.semaphore, line 56: acquire returns at once iff a permit is free
CanAcquire(sem) == sem > 0

\* range(self.max_retries), line 57: is there an iteration for this index
HasAttempt(k) == k < max_retries

\* every 2xx status taken for a success
IsSuccessAny2xx(r) == r.status \in 200..299

\* line 60
IsSuccess(r) == r.status = 200

\* the same sleep after every failed attempt
BackoffFixed(attempt) == delay

\* lines 64 and 68
Backoff(attempt) == delay * (attempt + 1)

Terminal(call) == call.pc \in {"returned", "raised", "cancelled"}
HoldsPermit(call) == call.pc \in {"attempt", "backoff"}

\* the call right after it got its permit: the first request is sent, or with
\* no iteration at all line 71 returns and the permit is released
Entered(call) ==
    IF HasAttempt(0)
    THEN [call EXCEPT !.pc = "attempt", !.attempt = 0, !.tries = 1]
    ELSE [call EXCEPT !.pc = "returned", !.html = None]

\* no sleep after the last failed attempt
RespondedNoLastSleep(call, r) ==
    IF r.err = "other" THEN [call EXCEPT !.pc = "raised", !.resp = r]
    ELSE IF r.err = "none" /\ IsSuccess(r)
         THEN [call EXCEPT !.pc = "returned", !.resp = r, !.html = r.body]
    ELSE IF HasAttempt(call.attempt + 1)
         THEN [call EXCEPT !.pc = "backoff", !.resp = r,
                           !.sleeps = Append(@, Backoff(call.attempt))]
    ELSE [call EXCEPT !.pc = "returned", !.resp = NoResponse, !.html = None]

\* the call after the response r of its pending request, lines 59-68
Responded(call, r) ==
    IF r.err = "other" THEN [call EXCEPT !.pc = "raised", !.resp = r]
    ELSE IF r.err = "none" /\ IsSuccess(r)
         THEN [call EXCEPT !.pc = "returned", !.resp = r, !.html = r.body]
    ELSE [call EXCEPT !.pc = "backoff", !.resp = r,
                      !.sleeps = Append(@, Backoff(call.attempt))]

\* exhausted retries raised instead of returned
WokenRaising(call) ==
    IF HasAttempt(call.attempt + 1)
    THEN [call EXCEPT !.pc = "attempt", !.attempt = @ + 1, !.tries = @ + 1,
                      !.resp = NoResponse]
    ELSE [call EXCEPT !.pc = "raised", !.resp = NoResponse, !.html = None]

\* the call after its sleep: the next iteration, or lines 70-71
Woken(call) ==
    IF HasAttempt(call.attempt + 1)
    THEN [call EXCEPT !.pc = "attempt", !.attempt = @ + 1, !.tries = @ + 1,
                      !.resp = NoResponse]
    ELSE [call EXCEPT !.pc = "returned", !.resp = NoResponse, !.html = None]

\* a permit that is taken and never given back
PermitsLeaked(sem, a, b) ==
    sem - (IF HoldsPermit(b) /\ ~HoldsPermit(a) THEN 1 ELSE 0)

\* the permit given back for the sleep and taken again for the next attempt
PermitsPerAttempt(sem, a, b) ==
    sem + (IF a.pc = "attempt" THEN 1 ELSE 0) - (IF b.pc = "attempt" THEN 1 ELSE 0)

\* permits held after the step from call a to call b
Permits(sem, a, b) ==
    sem + (IF HoldsPermit(a) THEN 1 ELSE 0) - (IF HoldsPermit(b) THEN 1 ELSE 0)

(***************************************************************************)
(* extract_book, save_to_file and extract_and_save, lines 202-265.         *)
(***************************************************************************)
Calls == 0..MaxPages

\* the slot index off by one
SlotOffByOne(page_num) == page_num + 1

\* every task writes the first slot
SlotFirst(page_num) == 1

\* results[page_num - 1] of line 219, as an index from 1
SlotOf(page_num) == page_num

\* the page number that call c requests: line 80 for the call of
\* get_total_pages, line 208 for the task of page c
PageOf(c) == IF c = 0 THEN 1 ELSE c

\* line 81: if not html
NoFirstPage(call) == call.html = None \/ ~Truthy(call.html[1])

\* line 225: [r for r in results if r]
RECURSIVE valid_results(_)
valid_results(res) ==
    IF res = << >> THEN << >>
    ELSE IF Head(res) # None /\ Head(res)[1] # << >>
         THEN << Head(res)[1] >> \o valid_results(Tail(res))
    ELSE valid_results(Tail(res))

\* line 226
Assemble(res) == Some(Join(valid_results(res), PageSep))

\* a file written for every value that is not None
save_to_file_any(content) == content

\* lines 242 and 263: what extract_and_save writes for the value of extract_book
save_to_file(content) ==
    IF content # None /\ content[1] # << >> THEN content ELSE None

\* extract_book returns value and extract_and_save runs to its end
Return(value) ==
    /\ phase' = "returned"
    /\ ret' = value
    /\ saved' = save_to_file(value)

\* the first page is not checked and the resolver falls through to its last resort
get_total_pages_unchecked(call) ==
    IF call.pc = "raised" THEN None
    ELSE IF NoFirstPage(call) THEN Some(FallbackPages)
    ELSE Some(ResolvePages(call.html[1]))

\* get_total_pages, lines 80-132, given how its get_page call ended: the number
\* it returns, or None when it raises
get_total_pages(call) ==
    IF call.pc = "raised" \/ NoFirstPage(call) THEN None
    ELSE Some(ResolvePages(call.html[1]))

\* no task for page 1: the markup of the pagination call stands for it
TaskPagesAfterFirst(n) == 2..n

\* line 208: range(1, self.total_pages + 1)
TaskPages(n) == 1..n

\* get_total_pages after its get_page call ended as call, and extract_book up
\* to its first await in the as_completed loop: lines 81-82, 84-132, 204-215
PaginationDone(call) ==
    IF get_total_pages(call) = None
    THEN /\ calls' = [calls EXCEPT ![0] = call]
         /\ Return(None)
         /\ UNCHANGED << total_pages, results >>
    ELSE LET n == get_total_pages(call)[1]
         IN  /\ total_pages' = n
             /\ calls' = [c \in Calls |->
                            IF c = 0 THEN call
                            ELSE IF c \in TaskPages(n) THEN [NoCall EXCEPT !.pc = "created"]
                            ELSE NoCall]
             /\ results' = [i \in 1..n |-> None]
             /\ IF n = 0
                THEN Return(Assemble(<< >>))
                ELSE phase' = "collecting" /\ UNCHANGED << ret, saved >>

\* one step of the get_page call c, from calls[c] to call
Step(c, call) ==
    /\ semaphore' = Permits(semaphore, calls[c], call)
    /\ IF c = 0
       THEN /\ IF Terminal(call)
               THEN PaginationDone(call)
               ELSE /\ calls' = [calls EXCEPT ![0] = call]
                    /\ UNCHANGED << total_pages, results, phase, ret, saved >>
            /\ UNCHANGED doneQ
       ELSE /\ calls' = [calls EXCEPT ![c] = call]
            /\ doneQ' = IF Terminal(call) THEN Append(doneQ, c) ELSE doneQ
            /\ UNCHANGED << total_pages, results, phase, ret, saved >>
    /\ UNCHANGED << concurrency, max_retries, completed, order,
                    doc, resolved, page_html, extracted >>

Running(c) ==
    IF c = 0 THEN phase = "pagination" ELSE phase \in {"collecting", "returned"}

\* extract_book is called: session, get_total_pages, get_page(session, 1)
Start ==
    /\ phase = "start"
    /\ CanAcquire(semaphore)
    /\ IF Terminal(Entered(NoCall))
       THEN Step(0, Entered(NoCall))
       ELSE /\ semaphore' = Permits(semaphore, NoCall, Entered(NoCall))
            /\ calls' = [calls EXCEPT ![0] = Entered(NoCall)]
            /\ phase' = "pagination"
            /\ UNCHANGED << concurrency, max_retries, total_pages, doneQ, results,
                            completed, order, ret, saved,
                            doc, resolved, page_html, extracted >>

\* the task of page p runs for the first time: it gets a permit or waits
TaskStart(p) ==
    /\ p \in 1..MaxPages
    /\ Running(p)
    /\ calls[p].pc = "created"
    /\ IF CanAcquire(semaphore)
       THEN Step(p, Entered(calls[p]))
       ELSE Step(p, [calls[p] EXCEPT !.pc = "waiting"])

\* a waiting task gets a permit
Acquire(p) ==
    /\ p \in 1..MaxPages
    /\ Running(p)
    /\ calls[p].pc = "waiting"
    /\ CanAcquire(semaphore)
    /\ Step(p, Entered(calls[p]))

\* the runs explored: at most MaxPages pages, and at most MaxAttempts requests
\* by the page tasks of one run
WithinBounds(n) == n <= MaxPages /\ n * max_retries <= MaxAttempts

\* the pending request of call c ends with response r
Response(c, r) ==
    /\ Running(c)
    /\ calls[c].pc = "attempt"
    /\ r \in Responses(c)
    /\ (c = 0 /\ r.err = "none" /\ IsSuccess(r) /\ r.body # None /\ Truthy(r.body[1]))
           => WithinBounds(ResolvePages(r.body[1]))
    /\ Step(c, Responded(calls[c], r))

\* the sleep of call c ends
Wake(c) ==
    /\ Running(c)
    /\ calls[c].pc = "backoff"
    /\ Step(c, Woken(calls[c]))

\* the loop left as soon as one result is received
LoopDoneAtFirst(n) == n >= 1

\* lines 215-222: the as_completed loop ends when it has yielded every task
LoopDone(n) == n = total_pages

\* the loop body of lines 216-222 for every task that as_completed has ready
RECURSIVE Drain(_, _)
Drain(q, st) ==
    IF q = << >> THEN st
    ELSE LET c == Head(q)
         IN  IF calls[c].pc = "raised"
             THEN [st EXCEPT !.raised = TRUE, !.rest = Tail(q)]
             ELSE Drain(Tail(q),
                        [st EXCEPT
                           !.results =
                               IF calls[c].html # None /\ Truthy(calls[c].html[1])
                               THEN [@ EXCEPT ![SlotOf(c)] =
                                        Some(extract_content_from_html(calls[c].html[1]))]
                               ELSE @,
                           !.completed = @ + 1,
                           !.order = Append(@, c)])

\* extract_book resumes in the as_completed loop, lines 215-230
Consume ==
    /\ phase = "collecting"
    /\ doneQ # << >>
    /\ LET st == Drain(doneQ, [results |-> results, completed |-> completed,
                               order |-> order, raised |-> FALSE, rest |-> << >>])
       IN  /\ results' = st.results
           /\ completed' = st.completed
           /\ order' = st.order
           /\ doneQ' = st.rest
           /\ IF st.raised THEN Return(None)
              ELSE IF LoopDone(st.completed) THEN Return(Assemble(st.results))
              ELSE UNCHANGED << phase, ret, saved >>
    /\ UNCHANGED << concurrency, max_retries, semaphore, total_pages, calls,
                    doc, resolved, page_html, extracted >>

\* asyncio.run ends, line 282: tasks that are still pending are cancelled,
\* and a cancelled get_page leaves its async with block
Shutdown ==
    /\ phase = "returned"
    /\ phase' = "closed"
    /\ calls' = [c \in Calls |->
                   IF calls[c].pc \in {"created", "waiting", "attempt", "backoff"}
                   THEN [calls[c] EXCEPT !.pc = "cancelled"]
                   ELSE calls[c]]
    /\ semaphore' = semaphore + Cardinality({ c \in Calls : HoldsPermit(calls[c]) })
    /\ UNCHANGED << concurrency, max_retries, total_pages, doneQ, results,
                    completed, order, ret, saved, doc, resolved, page_html, extracted >>

PipeInit(conc, retries) ==
    /\ concurrency = conc
    /\ max_retries = retries
    /\ semaphore = conc
    /\ total_pages = 0
    /\ calls = [c \in Calls |-> NoCall]
    /\ doneQ = << >>
    /\ results = << >>
    /\ completed = 0
    /\ order = << >>
    /\ phase = "start"
    /\ ret = None
    /\ saved = None

Init ==
    /\ \E conc \in 1..MaxConcurrency, retries \in 0..MaxRetries : PipeInit(conc, retries)
    /\ doc = EmptyHtml
    /\ resolved = None
    /\ page_html = EmptyHtml
    /\ extracted = None

Next ==
    \/ Start
    \/ \E p \in 1..MaxPages : TaskStart(p)
    \/ \E p \in 1..MaxPages : Acquire(p)
    \/ \E c \in Calls : \E r \in Responses(c) : Response(c, r)
    \/ \E c \in Calls : Wake(c)
    \/ Consume
    \/ Shutdown

Spec == Init /\ [][Next]_vars

(***************************************************************************)
(* The pagination resolver on its own: every first-page markup of Docs.    *)
(***************************************************************************)
InitResolve ==
    /\ PipeInit(1, 0)
    /\ doc \in { h \in Docs : WellFormedDoc(h) }
    /\ resolved = None
    /\ page_html = EmptyHtml
    /\ extracted = None

Resolve ==
    /\ resolved = None
    /\ resolved' = Some(ResolvePages(doc))
    /\ UNCHANGED << pipeVars, doc, page_html, extracted >>

NextResolve == Resolve

SpecResolve == InitResolve /\ [][NextResolve]_vars

(***************************************************************************)
(* The content extractor on its own: every markup of Pages.                *)
(***************************************************************************)
InitExtract ==
    /\ PipeInit(1, 0)
    /\ doc = EmptyHtml
    /\ resolved = None
    /\ page_html \in Pages
    /\ extracted = None

Extract ==
    /\ extracted = None
    /\ extracted' = Some(extract_content_from_html(page_html))
    /\ UNCHANGED << pipeVars, doc, resolved, page_html >>

NextExtract == Extract

SpecExtract == InitExtract /\ [][NextExtract]_vars

(***************************************************************************)
(* Properties of the fetch and assembly pipeline (Spec).                   *)
(***************************************************************************)
PageTasks == 1..MaxPages
Returned == phase \in {"returned", "closed"}

\* the outcomes of a get_page call
Success(call) == call.pc = "returned" /\ call.html # None
Failure(call) == call.pc = "returned" /\ call.html = None

\* the calls inside the block of line 56: requesting or sleeping
ActiveCalls == { c \in Calls : HoldsPermit(calls[c]) }

\* the text that the markup returned by the task of page p extracts to
PageText(p) ==
    IF Success(calls[p]) /\ Truthy(calls[p].html[1])
    THEN extract_content_from_html(calls[p].html[1])
    ELSE << >>

RECURSIVE NonEmptyFrom(_, _)
NonEmptyFrom(p, n) ==
    IF p > n THEN << >>
    ELSE IF PageText(p) # << >> THEN << PageText(p) >> \o NonEmptyFrom(p + 1, n)
    ELSE NonEmptyFrom(p + 1, n)

\* page text of the pages 1..n in ascending order, joined by the page separator
AscendingText(n) == Join(NonEmptyFrom(1, n), PageSep)

P(n) == << "P", DigitChar(n) >>

\* C1: at any moment at most `concurrency` get_page calls are inside the
\* semaphore block (requesting or sleeping in backoff), however many page
\* tasks exist.
C1_ConcurrencyBound == Cardinality(ActiveCalls) <= concurrency

C1_Witness ==
    /\ total_pages > concurrency
    /\ Cardinality(ActiveCalls) = concurrency
    /\ \E p \in PageTasks : calls[p].pc = "waiting"

\* C2: whatever the order in which the page tasks complete, the text that
\* extract_book returns is the non-empty page texts in ascending page order
\* with the page separator between them.
C2_OrderIndependent ==
    (Returned /\ ret # None) => ret[1] = AscendingText(total_pages)

C2_Witness ==
    /\ Returned
    /\ order = << 3, 1, 2 >>
    /\ ret = Some(P(1) \o PageSep \o P(2) \o PageSep \o P(3))

\* C3: a page whose attempts all fail ends as a Failure outcome and never as
\* an exception, its slot stays empty, and the text of a run whose tasks all
\* returned is the text of the other pages joined by the page separator.
C3_FailedPageSkipped ==
    /\ \A c \in Calls : calls[c].pc = "raised" => calls[c].resp.err = "other"
    /\ \A p \in 1..Len(results) : Failure(calls[p]) => results[p] = None
    /\ (Returned /\ total_pages >= 1 /\ \A p \in 1..total_pages : calls[p].pc = "returned")
           => /\ ret # None
              /\ ret[1] = Join(valid_results([p \in 1..total_pages |->
                                   IF Failure(calls[p]) THEN None ELSE results[p]]),
                               PageSep)

C3_Witness ==
    /\ Returned
    /\ total_pages = 3
    /\ Failure(calls[2]) /\ Len(calls[2].sleeps) = max_retries /\ max_retries >= 1
    /\ ret = Some(P(1) \o PageSep \o P(3))

\* C6: when the page-1 fetch of get_total_pages ends in Failure the run
\* aborts: extract_book returns None, total_pages is never set, no page task
\* is created, no slot is allocated and nothing is written to a file.
C6_PaginationFailureAborts ==
    Failure(calls[0])
        => /\ Returned
           /\ ret = None
           /\ saved = None
           /\ total_pages = 0
           /\ results = << >>
           /\ doneQ = << >>
           /\ \A p \in PageTasks : calls[p].pc = "none"

C6_Witness ==
    /\ Failure(calls[0])
    /\ max_retries >= 1
    /\ calls[0].tries = max_retries
    /\ phase = "closed"

PaginationFailed == Terminal(calls[0]) /\ get_total_pages(calls[0]) = None

\* an exception left the get_page call of a page task
PageRaised == \E p \in PageTasks : calls[p].pc = "raised"

\* C5 (as claimed): a run in which pagination was resolved and some page
\* fetch ended in Success is a best-effort success: extract_book returns the
\* partial text and extract_and_save writes it.
C5_SuccessWheneverAPageSucceeds ==
    (/\ Returned
     /\ ~PaginationFailed
     /\ \E p \in 1..total_pages : Success(calls[p]) /\ p \in Range(order))
        => ret # None /\ saved # None

\* C5 (amended): a finished run reports failure (nothing is written) exactly
\* when pagination resolution failed, or an exception other than a client or
\* timeout error left a page's get_page call, or no page gave non-empty
\* text; in every other run the partial text is returned and written.
C5_FailureOnlyWithoutText ==
    Returned =>
        /\ saved = None <=> \/ PaginationFailed
                            \/ PageRaised
                            \/ \A p \in 1..total_pages : PageText(p) = << >>
        /\ saved # None => saved = ret /\ ret[1] = AscendingText(total_pages)

C5_Witness ==
    /\ Returned
    /\ saved # None
    /\ \E p \in 1..total_pages : Failure(calls[p])
    /\ \E p \in 1..total_pages : PageText(p) = << >> /\ Success(calls[p])

\* C9 (as claimed): a response with any 2xx status makes get_page return
\* Success with the markup, and every other status or a transport error is
\* a retryable failure.
C9_Any2xxIsSuccess ==
    \A c \in Calls :
        LET call == calls[c]
        IN  call.resp # NoResponse =>
                /\ (call.resp.err = "none" /\ call.resp.status \in 200..299)
                       => Success(call) /\ call.html = call.resp.body
                /\ (call.resp.err = "client"
                        \/ (call.resp.err = "none" /\ call.resp.status \notin 200..299))
                       => call.pc \in {"backoff", "cancelled"}

\* C9 (amended): only status 200 whose body is read makes get_page return
\* Success with the markup; every other status, 2xx ones included, and every
\* client or timeout error, also one raised while the body is read, is a
\* retryable failure; any other exception leaves get_page.
C9_Only200IsSuccess ==
    \A c \in Calls :
        LET call == calls[c]
        IN  call.resp # NoResponse =>
                /\ (call.resp.err = "none" /\ call.resp.status = 200)
                       => Success(call) /\ call.html = call.resp.body
                /\ (call.resp.err = "client"
                        \/ (call.resp.err = "none" /\ call.resp.status # 200))
                       => /\ call.pc \in {"backoff", "cancelled"}
                          /\ Len(call.sleeps) = call.tries
                /\ call.resp.err = "other" => call.pc = "raised"

C9_Witness ==
    \E c \in Calls :
        /\ calls[c].resp.status = 204
        /\ calls[c].resp.err = "none"
        /\ calls[c].pc = "backoff"

\* the call has failed all its max_retries requests and is in its last sleep
FailedAll(call) == call.pc = "backoff" /\ call.attempt + 1 = max_retries

\* C4 (as claimed): a page whose every attempt failed never keeps another
\* page that is ready to fetch from fetching.
C4_FailingPageNeverDelays ==
    \A p \in PageTasks, q \in PageTasks :
        ~(FailedAll(calls[p]) /\ calls[q].pc = "waiting")

\* some step of a get_page call or of the as_completed loop can be taken: the
\* guards of TaskStart, Response, Wake, Acquire and Consume
CanProgress ==
    \/ \E c \in Calls : Running(c) /\ calls[c].pc \in {"created", "attempt", "backoff"}
    \/ \E p \in PageTasks : Running(p) /\ calls[p].pc = "waiting" /\ CanAcquire(semaphore)
    \/ phase = "collecting" /\ doneQ # << >>

\* C4 (amended): a page whose every attempt failed yields an empty slot and
\* never blocks the others for good.  It keeps its one permit until its last
\* backoff ends, so a page that waits for a permit can be delayed by it; but
\* permits are conserved (the failed page gives its permit back), a waiting
\* page always has a free permit or a permit holder ahead of it, and until
\* extract_book returns some step of a task or of the loop is always possible.
C4_FailingPageNeverBlocksForGood ==
    /\ \A p \in 1..Len(results) : Failure(calls[p]) => results[p] = None
    /\ semaphore + Cardinality(ActiveCalls) = concurrency
    /\ (\E q \in PageTasks : calls[q].pc = "waiting")
           => (semaphore > 0 \/ \E p \in PageTasks : HoldsPermit(calls[p]))
    /\ phase \in {"pagination", "collecting"} => CanProgress

C4_Witness ==
    /\ Returned
    /\ ret # None
    /\ concurrency = 1
    /\ total_pages >= 2
    /\ \E p \in 1..total_pages :
           /\ Failure(calls[p]) /\ max_retries >= 1
           /\ results[p] = None
           /\ \E q \in 1..total_pages :
                  /\ Success(calls[q])
                  /\ \E i, j \in 1..Len(order) : i < j /\ order[i] = p /\ order[j] = q

(***************************************************************************)
(* Properties of the pagination resolver (SpecResolve).                    *)
(***************************************************************************)
\* the second number of the first number / number in a text, as a number
Ratio(text) == ToInt(PageRatioSearch(text)[1])
HasRatio(text) == PageRatioSearch(text) # None

\* some div has a number / number, and n is the second number of the first such div
FirstDivRatioIs(h, n) ==
    \E i \in 1..Len(h.divs) :
        /\ HasRatio(h.divs[i].text)
        /\ \A j \in 1..(i - 1) : ~HasRatio(h.divs[j].text)
        /\ n = Ratio(h.divs[i].text)
NoDivRatio(h) == \A i \in 1..Len(h.divs) : ~HasRatio(h.divs[i].text)

\* n is the largest page= value of the TOC anchors, or the fallback without one
TocOrFallbackIs(h, n) ==
    LET hits == { i \in 1..Len(h.toc) : PageParamSearch(h.toc[i]) # None }
    IN  IF hits = {} THEN n = FallbackPages
        ELSE /\ \E i \in hits : n = ToInt(PageParamSearch(h.toc[i])[1])
             /\ \A i \in hits : n >= ToInt(PageParamSearch(h.toc[i])[1])

\* C7 (as claimed): the result is that of the first strategy that yields a
\* number: the widget's number / number, else the first div with a
\* number / number, else the largest TOC page= value, else 560, also when the
\* widget is present and its text has no number / number.
C7_FirstStrategyWithNumber ==
    resolved # None =>
        LET w == WidgetText(doc)
            n == resolved[1]
        IN  IF w # None /\ HasRatio(w[1]) THEN n = Ratio(w[1])
            ELSE IF ~NoDivRatio(doc) THEN FirstDivRatioIs(doc, n)
            ELSE TocOrFallbackIs(doc, n)

\* C7 (amended): the divs are scanned only when the widget gives no text (no
\* widget, or no div with a / in it); a widget whose text has a / but no
\* number / number skips the scan, and the result is the largest TOC page=
\* value, else 560.
C7_ScanOnlyWithoutWidgetText ==
    resolved # None =>
        LET w == WidgetText(doc)
            n == resolved[1]
        IN  /\ (w # None /\ HasRatio(w[1])) => n = Ratio(w[1])
            /\ (w = None /\ ~NoDivRatio(doc)) => FirstDivRatioIs(doc, n)
            /\ ((w # None /\ ~HasRatio(w[1])) \/ (w = None /\ NoDivRatio(doc)))
                   => TocOrFallbackIs(doc, n)

C7_Witness ==
    /\ resolved # None
    /\ WidgetText(doc) # None
    /\ ~HasRatio(WidgetText(doc)[1])
    /\ ~NoDivRatio(doc)
    /\ \E i \in 1..Len(doc.toc) : PageParamSearch(doc.toc[i]) # None
    /\ resolved[1] = 11

\* C15: get_total_pages yields an integer of at least 1 for every first-page
\* markup it accepts, a matched or listed number 0 included.
C15_TotalPagesAtLeastOne == resolved # None => resolved[1] >= 1

(***************************************************************************)
(* Properties of the content extractor (SpecExtract).                      *)
(***************************************************************************)
\* the markup is one or more articles whose only paragraphs hold an internal
\* anchor and fewer than MinRefLen characters of text
OnlyReferenceParagraphs(h) ==
    /\ h.paras # << >>
    /\ \A i \in 1..Len(h.paras) :
           /\ h.paras[i].kind = "article"
           /\ h.paras[i].anchor
           /\ Len(h.paras[i].text) < MinRefLen

\* C10: markup whose articles hold nothing but footnote-anchor paragraphs
\* yields no text, whichever stage of the cascade produced the result.
C10_ReferenceParagraphsExcluded ==
    (extracted # None /\ OnlyReferenceParagraphs(page_html)) => extracted[1] = << >>

(***************************************************************************)
(* The permit of one get_page call (Spec).                                 *)
(***************************************************************************)
\* the calls that take a permit, and those that give one back, in a step
Acquiring == { c \in Calls : ~HoldsPermit(calls[c]) /\ HoldsPermit(calls'[c]) }
Releasing == { c \in Calls : HoldsPermit(calls[c]) /\ ~HoldsPermit(calls'[c]) }

\* C11: a get_page call takes one permit before its first attempt, keeps it
\* through every attempt and every backoff sleep, and gives it back once, when
\* it reaches its terminal outcome; between two attempts the permit count is
\* not touched, and an ended call never takes a permit again.
C11_PermitHeldAcrossAttempts ==
    [][ /\ semaphore' = semaphore - Cardinality(Acquiring) + Cardinality(Releasing)
        /\ \A c \in Acquiring :
               /\ calls[c].tries = 0
               /\ calls'[c].pc = "attempt" /\ calls'[c].tries = 1
        /\ \A c \in Releasing : Terminal(calls'[c])
        /\ \A c \in Calls :
               /\ (HoldsPermit(calls[c]) /\ HoldsPermit(calls'[c])
                      /\ calls'[c] # calls[c]) => semaphore' = semaphore
               /\ Terminal(calls[c]) => calls'[c] = calls[c] ]_vars

C11_Witness ==
    \E c \in Calls :
        /\ calls[c].pc = "attempt"
        /\ calls[c].tries = 2
        /\ calls[c].sleeps = << delay >>
        /\ semaphore = concurrency - 1

(***************************************************************************)
(* The result slots (Spec).                                                *)
(***************************************************************************)
\* C12: a slot is written only for the task of its own page, when that task's
\* result is received, with the whole text extracted from that page's markup;
\* a written slot is never written again, never cleared, and the slot array
\* is allocated once with every slot empty.
C12_SlotsWriteOnce ==
    [][ IF Len(results') # Len(results)
        THEN results = << >> /\ \A i \in 1..Len(results') : results'[i] = None
        ELSE \A i \in 1..Len(results) :
                 /\ results[i] # None => results'[i] = results[i]
                 /\ results'[i] # results[i] =>
                        /\ \E k \in 1..Len(doneQ) : doneQ[k] = i
                        /\ Success(calls[i])
                        /\ results'[i] = Some(PageText(i))
                        /\ Len(order') > Len(order)
                        /\ \E k \in Len(order) + 1..Len(order') : order'[k] = i ]_vars

C12_Witness ==
    /\ total_pages = 2
    /\ order = << 2, 1 >>
    /\ results = << Some(P(1)), Some(P(2)) >>

(***************************************************************************)
(* Read-back of the slots (Spec).                                          *)
(***************************************************************************)
\* extract_book has produced its text
TextProduced == ret # None

\* C13: the text is produced only when every dispatched page task has ended
\* with Success or Failure and has been received; no task is then pending,
\* attempting or sleeping, and no slot changes once the text is produced.
C13_ReadBackAfterAllTasks ==
    /\ [](TextProduced =>
             /\ completed = total_pages
             /\ doneQ = << >>
             /\ Len(results) = total_pages
             /\ \A p \in 1..total_pages :
                    /\ calls[p].pc = "returned"
                    /\ \E k \in 1..Len(order) : order[k] = p)
    /\ [][TextProduced => results' = results]_vars

C13_Witness ==
    /\ total_pages = 2
    /\ Failure(calls[1])
    /\ Success(calls[2])
    /\ ret = Some(P(2))
    /\ phase = "closed"

(***************************************************************************)
(* The range of the page numbers (Spec).                                   *)
(***************************************************************************)
\* get_total_pages has returned a number of pages in this run
TotalResolved == Terminal(calls[0]) /\ get_total_pages(calls[0]) # None

\* C14: every request of a run, the first-page request of the pagination
\* step included, is for a page number in 1..total_pages, for the total_pages
\* that the run resolves.
C14_RequestsWithinResolvedRange ==
    TotalResolved =>
        \A c \in Calls : calls[c].tries >= 1 => PageOf(c) \in 1..total_pages

(***************************************************************************)
(* Retries (Spec).                                                         *)
(***************************************************************************)
\* call c fails an attempt and starts its sleep, or ends a sleep and starts
\* its next attempt
RetryStep(c) ==
    \/ calls[c].pc = "attempt" /\ calls'[c].pc = "backoff"
    \/ calls[c].pc = "backoff" /\ calls'[c].pc = "attempt"

\* a retry step of call c changes the attempt state of c and nothing else
RetryFrame ==
    \A c \in Calls : RetryStep(c) =>
        /\ \A q \in Calls \ {c} : calls'[q] = calls[q]
        /\ calls'[c].html = calls[c].html
        /\ calls'[c].attempt \in {calls[c].attempt, calls[c].attempt + 1}
        /\ UNCHANGED << results, completed, order, doneQ, total_pages, phase, ret >>

\* the call has failed at least once and is sleeping or attempting again
Retrying(call) == HoldsPermit(call) /\ call.sleeps # << >>

\* C16 (as claimed): a retry step of page p changes only p's attempt state,
\* and the retries of p never bear on whether and when another page may start
\* its own attempts.
C16_RetryNeverAffectsOthers ==
    /\ [][RetryFrame]_vars
    /\ [](\A p \in PageTasks, q \in PageTasks :
              ~(Retrying(calls[p]) /\ calls[q].pc = "waiting"))

\* C16 (amended): a retry step of page p changes only p's attempt state: the
\* other calls, the slots, the completed count and the permit count are left
\* as they are, so the step itself changes nothing about which waiting page
\* may start.  The retries of p bear on the others only through the permit
\* that p keeps while it retries.
C16_RetryIsLocal ==
    [][RetryFrame /\ ((\E c \in Calls : RetryStep(c)) => semaphore' = semaphore)]_vars

C16_Witness ==
    \E p \in PageTasks, q \in PageTasks :
        /\ calls[p].pc = "attempt" /\ calls[p].tries = 2
        /\ calls[q].pc = "waiting"
        /\ calls[q].tries = 0
        /\ semaphore = 0

(***************************************************************************)
(* Failures of one page (Spec).                                            *)
(***************************************************************************)
\* C17: whatever fails for one page, an exception other than a client or
\* timeout error inside its get_page call included, costs at most that page:
\* extract_book reports failure only when pagination resolution failed or no
\* page gave any text.
C17_PageFailuresContained ==
    (Returned /\ ret = None) =>
        \/ PaginationFailed
        \/ \A p \in 1..Len(results) : results[p] = None \/ results[p][1] = << >>

\* C18: a run that has resolved its number of pages ends with every
\* dispatched page task at a terminal outcome, all of them received
\* (completed = total_pages), and every permit free again.
C18_EndsWithAllTasksDoneAndPermitsFree ==
    (Returned /\ TotalResolved) =>
        /\ \A p \in 1..total_pages : Terminal(calls[p])
        /\ completed = total_pages
        /\ semaphore = concurrency

(***************************************************************************)
(* The two requests of page 1 (Spec).                                      *)
(***************************************************************************)
\* the get_page calls made so far that request page number page
CallsFor(page) == { c \in Calls : calls[c].pc # "none" /\ PageOf(c) = page }

RECURSIVE SumSeq(_)
SumSeq(s) == IF s = << >> THEN 0 ELSE Head(s) + SumSeq(Tail(s))

====
